---- MODULE Spec2Model ----
(***************************************************************************)
(* A model of matrix.c: the 8x8 red/green LED matrix firmware (ATmega88).  *)
(* The frame buffer is 16 column words of 16 bits; a cell is the 2-bit     *)
(* field at bit 2*row of a column word (0 dead, 1 green, 2 red, 3 orange). *)
(*                                                                         *)
(* The specifications share the variables:                                 *)
(*   SpecLife     life(src, dst) applied to bounded families of boards,    *)
(*   SpecButtons  GetButtons() polled against every raw input sequence,    *)
(*   Spec         a do_life session interleaved with the scanner ISR,      *)
(*   SpecDoLife   a do_life session alone (FairDoLife: with progress),     *)
(*   SpecHello    hello_world() called again and again,                    *)
(*   SpecSeed     random_field() on every column bit pattern,              *)
(*   SpecScan     the scanner ISR statement by statement, the fade ISR     *)
(*                and main's writes of fb_base,                            *)
(*   SpecSleep    Sleep() statement by statement with timer 1 and its ISR. *)
(***************************************************************************)
EXTENDS Integers, Sequences, FiniteSets, TLC

VARIABLES
    framebuf,     \* volatile uint16_t framebuf[16], as [0..15 -> 0..65535]
    fb_base,      \* volatile uint8_t fb_base
    life_state,   \* the value returned by the last life() call
    dst_before,   \* history: the destination half as the last life() call found it
    prevState,    \* GetButtons: static uint8_t prevState
    repeat,       \* GetButtons: static uint8_t repeat
    buttons,      \* the value returned by the last GetButtons() call
    seen,         \* history of the last poll: what it read and what it found
    run,          \* history: consecutive polls that read the pattern last read
    tap,          \* history: the single-button tap in progress
    iterations,   \* do_life: unsigned short iterations
    df,           \* do_life: int8_t df
    fade,         \* do_life: uint8_t fade
    speed,        \* do_life: uint8_t speed
    itc,          \* do_life: uint8_t itc
    ktc,          \* do_life: uint8_t ktc
    OCR0B,        \* timer 0 compare B: the fade level
    fade_irq,     \* TIMSK0 bit OCIE0B: the fade interrupt is enabled
    loop_i,       \* the running loop's i (clear_screen: the byte offset of memset)
    loop_j,       \* life: the inner loop's j
    step,         \* which store of the loop body comes next
    ret,          \* life: uint8_t ret
    nextstate,    \* life: uint8_t nextstate
    deadcols,     \* life: uint8_t deadcols
    st,           \* the 16-bit store in progress: column, old and new word
    col,          \* ISR(TIMER0_COMPA_vect): static uint8_t col
    noise,        \* the bits adc_sample() & 1 gives random_field, per column
    polls,        \* history: the GetButtons() calls of this session, up to the bound
    store,        \* history: the last byte stored to framebuf by the main context
    scan,         \* history: what the last run of the scanner interrupt read
    fadeh,        \* history: the level the current fade began at, and its steps
    gens,         \* history: the life() calls of this session
    maskus,       \* hello_world: static uint64_t maskus, as the set of its 1 bits
    quoted,       \* history: the quote indices picked in this round of 64
    pick,         \* history: the last pick, its probing and the mask it found
    PORTD,        \* the column driver lines
    sr,           \* the 16 bits in the row shift registers, last one shifted in low
    latch,        \* the 16 bits on the outputs of the row shift registers
    isr_pc,       \* position of ISR(TIMER0_COMPA_vect), "idle" when it is not running
    isr_c,        \* ISR(TIMER0_COMPA_vect): uint16_t c
    isr_i,        \* ISR(TIMER0_COMPA_vect): uint8_t i
    rd,           \* history: what the running or last tick read, and where
    shown,        \* history: the read whose bits are on the outputs
    tick,         \* history: the ticks of the scanner so far
    wakeup,       \* volatile uint8_t wakeup
    TIMSK1,       \* timer 1 interrupt mask
    TCCR1B,       \* timer 1 control B: 0 is stopped
    OCF1A,        \* TIFR1 bit OCF1A: a compare match A is pending
    TCNT1,        \* timer 1 counter
    OCR1A,        \* timer 1 compare A
    asleep,       \* the CPU is in idle mode
    kiloclocks,   \* Sleep: uint16_t kiloclocks
    slp,          \* history of the Sleep call: matches served, wake-ups lost
    pc            \* position of the main context

lifeVars == <<framebuf, fb_base, life_state, dst_before>>
btnState == <<prevState, repeat, buttons>>
btnHist == <<seen, run, tap>>
btnVars == <<prevState, repeat, buttons, seen, run, tap>>

helloVars == <<maskus, quoted, pick>>
scanVars == <<PORTD, sr, latch, isr_pc, isr_c, isr_i, rd, shown, tick>>
sleepVars == <<wakeup, TIMSK1, TCCR1B, OCF1A, TCNT1, OCR1A, asleep, kiloclocks, slp>>
extVars == <<helloVars, scanVars, sleepVars>>

hist == <<fadeh, gens>>
locals == <<iterations, df, fade, speed, itc, ktc, OCR0B, fade_irq>>
loopVars == <<loop_i, loop_j, step, ret, nextstate, deadcols>>
doLifeVars == <<iterations, df, fade, speed, itc, ktc, OCR0B, fade_irq,
                loop_i, loop_j, step, ret, nextstate, deadcols, st, col, noise,
                polls, store, scan, hist>>
sessVars == <<doLifeVars, extVars>>

vars == <<framebuf, fb_base, life_state, dst_before,
          prevState, repeat, buttons, seen, run, tap,
          iterations, df, fade, speed, itc, ktc, OCR0B, fade_irq,
          loop_i, loop_j, step, ret, nextstate, deadcols, st, col, noise, polls, store, scan,
          fadeh, gens, maskus, quoted, pick,
          PORTD, sr, latch, isr_pc, isr_c, isr_i, rd, shown, tick,
          wakeup, TIMSK1, TCCR1B, OCF1A, TCNT1, OCR1A, asleep, kiloclocks, slp, pc>>

----------------------------------------------------------------------------
(* Program constants *)

DEAD == 0
STEADY == 1
ACTIVE == 2

BUTTON_LEFT == 1
BUTTON_RIGHT == 2
BUTTON_HOLD == 16
REPEAT_THRESHOLD == 20

REFRESH == 157
FADE_DARK == 1
FADE_BRIGHT == REFRESH - 1

(* Bounds of the checked input families *)

\* anchors 0..MaxAnchor of the 3x3 window the source boards are drawn in
MaxAnchor == 1
\* seeds 0..MaxSeed of a session: the noise that random_field samples
MaxSeed == 7
\* the first MaxPressPoll polls of a session may read any button pattern,
\* the later ones read both buttons released
MaxPressPoll == 3
\* the ticks of the scanner that SpecScan follows
MaxTick == 10
\* the arguments 1..MaxKilo of the Sleep calls that SpecSleep follows
MaxKilo == 2

----------------------------------------------------------------------------
(* 16-bit words and 2-bit fields.  `int' is 16 bits on the AVR; avr-gcc    *)
(* defines 3 << 14 and 2 << 14 as the bit patterns 0xC000 and 0x8000, and  *)
(* every shift count used below is even and at most 14.                    *)

Cols == 0..7
Word == 0..65535

\* (w >> j) & 0x03
Field(w, j) == (w \div (2^j)) % 4

\* w & (3 << s), for a 16-bit w and an even s <= 14
AndMask3(w, s) == Field(w, s) * (2^s)

\* !!x
NotNot(x) == IF x # 0 THEN 1 ELSE 0

\* bitwise or of two 2-bit values
Or2(a, b) == ((IF (a % 2 = 1) \/ (b % 2 = 1) THEN 1 ELSE 0)
              + 2 * (IF (a \div 2 = 1) \/ (b \div 2 = 1) THEN 1 ELSE 0))

\* w &= ~(3 << j)
ClearField(w, j) == w - AndMask3(w, j)

\* w |= (v << j), for a 2-bit v
OrField(w, j, v) == w - AndMask3(w, j) + Or2(Field(w, j), v) * (2^j)

\* (x - 1) & 0x07, (x + 1) & 0x07: column neighbours on the torus
ColL(i) == (i + 7) % 8
ColR(i) == (i + 1) % 8
\* (j - 2) & 0x0F, (j + 2) & 0x0F: bit offsets of the row neighbours
RowU(j) == (j + 14) % 16
RowD(j) == (j + 2) % 16

----------------------------------------------------------------------------
(* life(): the cell rule *)

\* the eight !!(src[..] & (3 << ..)) terms
Neighbors(s, i, j) ==
    NotNot(AndMask3(s[ColL(i)], RowU(j))) +
    NotNot(AndMask3(s[ColL(i)], j)) +
    NotNot(AndMask3(s[ColL(i)], RowD(j))) +
    NotNot(AndMask3(s[i], RowU(j))) +
    NotNot(AndMask3(s[i], RowD(j))) +
    NotNot(AndMask3(s[ColR(i)], RowU(j))) +
    NotNot(AndMask3(s[ColR(i)], j)) +
    NotNot(AndMask3(s[ColR(i)], RowD(j)))

\* mutant: a survivor keeps the colour it had (plain Conway survival)
NextStateKeepColour(curstate, neighbors) ==
    IF curstate # 0
    THEN IF neighbors < 2 \/ neighbors > 3 THEN 0 ELSE curstate
    ELSE IF neighbors = 3 THEN 1 ELSE 0

\* mutant: a dead cell is also born with two neighbours
NextStateBirth2(curstate, neighbors) ==
    IF curstate # 0
    THEN IF neighbors < 2 \/ neighbors > 3 THEN 0
         ELSE IF curstate = 1 THEN 3 ELSE 2
    ELSE IF neighbors = 3 \/ neighbors = 2 THEN 1 ELSE 0

\* the if/else chain that picks nextstate
NextState(curstate, neighbors) ==
    IF curstate # 0
    THEN IF neighbors < 2 \/ neighbors > 3 THEN 0
         ELSE IF curstate = 1 THEN 3
         ELSE 2
    ELSE IF neighbors = 3 THEN 1
    ELSE 0

\* one pass of the inner loop body: the new value of dst[i] after cell j
LifeCell(s, d, i, j) ==
    OrField(ClearField(d, j), j, NextState(Field(s[i], j), Neighbors(s, i, j)))

\* the inner loop for (j = 0; j < 16; j += 2) on column i, from bit offset j
RECURSIVE LifeColFrom(_, _, _, _)
LifeColFrom(s, d, i, j) ==
    IF j >= 16 THEN d ELSE LifeColFrom(s, LifeCell(s, d, i, j), i, j + 2)

LifeCol(s, d, i) == LifeColFrom(s, d, i, 0)

\* mutant: the comparison with the source column is inverted
ColStateInverted(dcol, scol) ==
    IF dcol = 0 THEN DEAD ELSE IF dcol # scol THEN STEADY ELSE ACTIVE

\* colstate = (dst[i] == 0) ? DEAD : (dst[i] == src[i]) ? STEADY : ACTIVE
ColState(dcol, scol) ==
    IF dcol = 0 THEN DEAD ELSE IF dcol = scol THEN STEADY ELSE ACTIVE

\* mutant: seven or more dead columns count as STEADY
LifeReturnAtLeast7(r, ndead) == IF ndead >= 7 THEN STEADY ELSE r

\* mutant: the seven-dead-columns hack is left out
LifeReturnNoHack(r, ndead) == r

\* return (deadcols == 7) ? STEADY : ret
LifeReturn(r, ndead) == IF ndead = 7 THEN STEADY ELSE r

\* the outer loop from column i on: the accumulators after the last column
RECURSIVE LifeLoop(_, _, _, _, _)
LifeLoop(s, d, i, r, ndead) ==
    IF i >= 8 THEN [dst |-> d, ret |-> r, ndead |-> ndead]
    ELSE LET dcol == LifeCol(s, d[i], i)
             colstate == ColState(dcol, s[i])
         IN  LifeLoop(s, [d EXCEPT ![i] = dcol], i + 1,
                      IF colstate > r THEN colstate ELSE r,
                      IF colstate = DEAD THEN ndead + 1 ELSE ndead)

\* life(src, dst): the board written to dst and the value returned
life(s, d) ==
    LET end == LifeLoop(s, d, 0, DEAD, 0)
    IN  [dst |-> end.dst, ret |-> LifeReturn(end.ret, end.ndead)]

----------------------------------------------------------------------------
(* GetButtons() *)

Min(a, b) == IF a < b THEN a ELSE b

RECURSIVE BitAnd(_, _)
BitAnd(a, b) ==
    IF a = 0 \/ b = 0 THEN 0
    ELSE (a % 2) * (b % 2) + 2 * BitAnd(a \div 2, b \div 2)

RECURSIVE BitOr(_, _)
BitOr(a, b) ==
    IF a = 0 THEN b ELSE IF b = 0 THEN a
    ELSE (IF a % 2 = 1 \/ b % 2 = 1 THEN 1 ELSE 0) + 2 * BitOr(a \div 2, b \div 2)

\* ~x for a uint8_t x promoted to the 16-bit int
NotInt(x) == 65535 - x

\* conversion of an int result to uint8_t
U8(x) == x % 256

\* curState = ((PINC & 0x30) >> 4)
CurState(pinc) == BitAnd(pinc, 48) \div 16

\* mutant: the bits that are set now, whatever they were before
PressedNow(prev, cur) == U8(cur)

\* pressed = ~prevState & curState
Pressed(prev, cur) == U8(BitAnd(NotInt(prev), cur))

\* mutant: the complement is forgotten, so the released lines are tagged
HoldEventNoComplement(cur) == U8(BitOr(BUTTON_HOLD, BitAnd(cur, 3)))

\* return BUTTON_HOLD | ~(curState & 3)
HoldEvent(cur) == U8(BitOr(BUTTON_HOLD, NotInt(BitAnd(cur, 3))))

\* the held branch: if (curState == 3) repeat = 0
HeldRepeat(ps, rp, cur) == IF cur = 3 THEN 0 ELSE rp

\* GetButtons() on the statics (ps, rp) with PINC = pinc: the new statics and
\* the value returned
GetButtons(ps, rp, pinc) ==
    LET curState == CurState(pinc)
    IN  IF rp >= REPEAT_THRESHOLD
        THEN [prevState |-> curState, repeat |-> HeldRepeat(ps, rp, curState),
              ret |-> 0]
        ELSE IF curState # ps
        THEN [prevState |-> curState, repeat |-> rp,
              ret |-> Pressed(ps, curState)]
        ELSE IF curState # 3
        THEN [prevState |-> ps, repeat |-> U8(rp + 1),
              ret |-> IF U8(rp + 1) = REPEAT_THRESHOLD
                      THEN HoldEvent(curState) ELSE 0]
        ELSE [prevState |-> ps, repeat |-> rp, ret |-> 0]

\* the values PINC can read: the two button lines PC4 and PC5, and the three
\* shift-register outputs PC0..PC2 read back low or high
PincValues == {16 * b + low : b \in 0..3, low \in {0, 7}}

BtnInit ==
    /\ prevState = 255
    /\ repeat = 0
    /\ buttons = 0

BtnHistInit ==
    /\ seen = [cur |-> 255, prev |-> 255, repeat |-> 0]
    /\ run = 0
    /\ tap = [phase |-> "none", line |-> 0, start |-> 0, polls |-> 0, events |-> 0]

----------------------------------------------------------------------------
(* The two halves of the frame buffer as boards *)

\* &framebuf[base] read as uint16_t[8]
Half(fb, base) == [i \in Cols |-> fb[base + i]]

\* mutant: the flip leaves the base where it is
FlipNone(base) == base

\* fb_base ^ 8
Flip(base) == IF (base \div 8) % 2 = 1 THEN base - 8 ELSE base + 8

Src == Half(framebuf, fb_base)
Dst == Half(framebuf, Flip(fb_base))

----------------------------------------------------------------------------
(* The frame buffer as the main context and the scanner interrupt share it *)

NoStore == [col |-> -1, old |-> 0, new |-> 0]
NoByte == [col |-> -1, vis |-> FALSE, by |-> "none"]
NoScan == [mid |-> FALSE, torn |-> FALSE, during |-> "none"]

\* column c is one of the 8 columns the scanner reads: (fb_base + col) & 0x0F
Visible(c, base) == ((c - base + 16) % 16) < 8

Lo(w) == w % 256
Hi(w) == w \div 256

\* an 8-bit store to the low or the high byte of framebuf[c] (little endian)
StoreLo(fb, c, w) == [fb EXCEPT ![c] = Hi(@) * 256 + Lo(w)]
StoreHi(fb, c, w) == [fb EXCEPT ![c] = Hi(w) * 256 + Lo(@)]

\* no fade has begun
NoFade == [from |-> 0, steps |-> 0, was |-> 0, level |-> 0]

\* hello_world before its first call
NoPick == [r |-> 0, start |-> 0, probes |-> 0, found |-> TRUE, fresh |-> TRUE,
           refilled |-> FALSE, nth |-> 0]

HelloIdle ==
    /\ maskus = {}
    /\ quoted = {}
    /\ pick = NoPick

\* no tick of the scanner has run: the drivers are off (main: PORTD = 0x00)
NoRead == [col |-> 0, off |-> 0, base |-> 0, word |-> 0]

ScanIdle ==
    /\ PORTD = 0
    /\ sr = 0 /\ latch = 0
    /\ isr_pc = "idle" /\ isr_c = 0 /\ isr_i = 0
    /\ rd = NoRead /\ shown = NoRead
    /\ tick = 0

\* no Sleep call has been made: timer 1 is stopped, its interrupt disabled
NoSleep == [matches |-> 0, lost |-> FALSE, set |-> FALSE]

SleepIdle ==
    /\ wakeup = 0
    /\ TIMSK1 = 0 /\ TCCR1B = 0 /\ OCF1A = FALSE /\ TCNT1 = 0 /\ OCR1A = 0
    /\ asleep = FALSE
    /\ kiloclocks = 0
    /\ slp = NoSleep

ExtIdle == HelloIdle /\ ScanIdle /\ SleepIdle

\* the locals and the position of a do_life that is not running
SessIdle ==
    /\ ExtIdle
    /\ iterations = 0 /\ df = 0 /\ fade = 0 /\ speed = 0 /\ itc = 0 /\ ktc = 0
    /\ OCR0B = 0 /\ fade_irq = FALSE
    /\ fadeh = NoFade /\ gens = 0
    /\ loop_i = 0 /\ loop_j = 0 /\ step = "lo" /\ ret = DEAD /\ nextstate = 0
    /\ deadcols = 0
    /\ st = NoStore /\ col = 0
    /\ noise = [c \in Cols |-> [k \in 0..7 |-> 0]]
    /\ polls = 0 /\ store = NoByte /\ scan = NoScan

----------------------------------------------------------------------------
(* Source boards for SpecLife: every subset of a 3x3 window, placed at an  *)
(* anchor (the first two straddle the row-7/row-0 and column-7/column-0    *)
(* seams), in one colour (red, green, orange) or in mixed colours, with or *)
(* without a lone red cell four columns and four rows away.                *)

AnchorCol(a) == (7 * (a + 1)) % 8
AnchorRow(a) == (7 + 3 * a) % 8

\* colour of window cell k in colour mode m
Colour(k, m) ==
    IF m = 0 THEN 2 ELSE IF m = 1 THEN 1 ELSE IF m = 2 THEN 3
    ELSE 1 + ((k + m) % 3)

\* the cell of `cells' (window indices) that lands on column i, row r; 0 if none
WindowCell(cells, a, m, i, r) ==
    LET dc == (i - AnchorCol(a) + 8) % 8
        dr == (r - AnchorRow(a) + 8) % 8
    IN  IF dc < 3 /\ dr < 3 /\ (3 * dr + dc) \in cells
        THEN Colour(3 * dr + dc, m)
        ELSE 0

DebrisCell(a, i, r) ==
    IF i = (AnchorCol(a) + 4) % 8 /\ r = (AnchorRow(a) + 4) % 8 THEN 2 ELSE 0

RECURSIVE PackRows(_, _)
PackRows(f, r) == IF r >= 8 THEN 0 ELSE f[r] * (4^r) + PackRows(f, r + 1)

PatternBoard(cells, a, m, debris) ==
    [i \in Cols |->
        PackRows([r \in 0..7 |->
                    LET w == WindowCell(cells, a, m, i, r)
                    IN  IF w # 0 THEN w
                        ELSE IF debris THEN DebrisCell(a, i, r) ELSE 0], 0)]

\* previous contents of the destination half
Fill(v) == [i \in Cols |-> v]

\* framebuf with `front' at columns base..base+7 and `back' in the other half
Frame(front, back, base) ==
    [c \in 0..15 |-> IF c >= base /\ c < base + 8 THEN front[c - base]
                     ELSE back[c - Flip(base)]]

----------------------------------------------------------------------------
(* SpecLife: one life() call on each source board *)

InitLife ==
    /\ \E cells \in SUBSET (0..8), a \in 0..MaxAnchor, m \in 0..3,
          debris \in BOOLEAN, v \in {0, 65535} :
          /\ fb_base = 8 * (a % 2)
          /\ framebuf = Frame(PatternBoard(cells, a, m, debris), Fill(v), fb_base)
          /\ dst_before = Fill(v)
    /\ life_state = DEAD
    /\ BtnInit /\ BtnHistInit
    /\ SessIdle
    /\ pc = "life_call"

\* life_state = life(&framebuf[fb_base], &framebuf[fb_base ^ 8])
LifeCall ==
    /\ pc = "life_call"
    /\ LET res == life(Src, Dst)
       IN  /\ framebuf' = Frame(Src, res.dst, fb_base)
           /\ life_state' = res.ret
    /\ dst_before' = Dst
    /\ pc' = "life_done"
    /\ UNCHANGED <<fb_base, btnVars, sessVars>>

NextLife == LifeCall

SpecLife == InitLife /\ [][NextLife]_vars

----------------------------------------------------------------------------
(* SpecButtons: GetButtons() polled against every sequence of PINC values. *)
(* The history variables record, for the last poll, the pattern it read    *)
(* and the statics it found; the number of consecutive polls that read the *)
(* same pattern; and the progress of a tap: one button line going down     *)
(* from the released, not-held state and coming back up.                   *)

NonZero(x) == IF x # 0 THEN 1 ELSE 0

TapNone == [phase |-> "none", line |-> 0, start |-> 0, polls |-> 0, events |-> 0]

\* the tap after a poll that read cur and returned ev
TapStep(t, ps, rp, cur, ev) ==
    IF ps = 3 /\ rp < REPEAT_THRESHOLD /\ cur \in {1, 2}
    THEN [phase |-> "down", line |-> cur, start |-> rp, polls |-> 1,
          events |-> NonZero(ev)]
    ELSE IF t.phase = "down" /\ cur = t.line /\ t.polls + 1 < REPEAT_THRESHOLD
    THEN [t EXCEPT !.polls = t.polls + 1, !.events = t.events + NonZero(ev)]
    ELSE IF t.phase = "down" /\ cur = 3
    THEN [t EXCEPT !.phase = "up", !.events = t.events + NonZero(ev)]
    ELSE TapNone

InitButtons ==
    /\ BtnInit /\ BtnHistInit
    /\ framebuf = [c \in 0..15 |-> 0]
    /\ fb_base = 0
    /\ life_state = DEAD
    /\ dst_before = Fill(0)
    /\ SessIdle
    /\ pc = "poll"

\* buttons = GetButtons()
Poll ==
    /\ pc = "poll"
    /\ \E pinc \in PincValues :
          LET res == GetButtons(prevState, repeat, pinc)
              cur == CurState(pinc)
          IN  /\ prevState' = res.prevState
              /\ repeat' = res.repeat
              /\ buttons' = res.ret
              /\ seen' = [cur |-> cur, prev |-> prevState, repeat |-> repeat]
              /\ run' = IF cur = seen.cur
                        THEN Min(run + 1, REPEAT_THRESHOLD + 1) ELSE 1
              /\ tap' = TapStep(tap, prevState, repeat, cur, res.ret)
    /\ UNCHANGED <<lifeVars, sessVars, pc>>

NextButtons == Poll

SpecButtons == InitButtons /\ [][NextButtons]_vars

----------------------------------------------------------------------------
(* Spec: one do_life session from power-up, with the scanner interrupt     *)
(* TIMER0_COMPA free to run between any two steps of the main context.     *)
(* A step of the main context is one 8-bit store to framebuf or one write  *)
(* of fb_base, with the local computation that leads to it: the interrupt  *)
(* reads nothing else of what the main context writes.  A 16-bit store is  *)
(* two 8-bit stores, low byte first.                                       *)

\* the bit of seed s that stands for sample k of column c: the seeds below
\* 16 fill a 2x2 window at columns 0-1, samples 3-4 (bits on both sides of
\* the byte boundary of a column word), the higher bits the rest of the 3x3
\* window at columns 0-2, samples 3-5
SeedBit(c, k) ==
    IF c < 2 /\ k < 5 THEN 2 * (k - 3) + c
    ELSE IF k < 5 THEN k + 1
    ELSE 6 + c

\* the noise of seed s
SeedNoise(s) ==
    [c \in Cols |-> [k \in 0..7 |->
        IF c < 3 /\ k \in {3, 4, 5} /\ (s \div (2^SeedBit(c, k))) % 2 = 1
        THEN 1 ELSE 0]]

\* a glider in the 3x3 window: it travels round the torus for ever
GliderSeed == 2^1 + 2^5 + 2^6 + 2^7 + 2^8

\* random_field: the inner loop from sample k on, b <<= 2; b |= bit
RECURSIVE RandomBits(_, _, _)
RandomBits(bits, b, k) ==
    IF k >= 8 THEN b
    ELSE RandomBits(bits, BitOr((b * 4) % 65536, bits[k]), k + 1)

\* mutant: the final shift is forgotten, the sampled bit stays the low bit
RandomColumnNoShift(bits) == RandomBits(bits, 0, 0)

\* random_field: the word stored to p[i], (b << 1)
RandomColumn(bits) == (RandomBits(bits, 0, 0) * 2) % 65536

\* mutant: life() is handed the visible half as its destination
LifeDstBaseVisible(base) == base

\* the destination of the life() call: &framebuf[fb_base ^ 8]
LifeDstBase(base) == Flip(base)

Init ==
    /\ framebuf = [c \in 0..15 |-> 0]
    /\ fb_base = 0
    /\ life_state = DEAD
    /\ dst_before = Fill(0)
    /\ BtnInit /\ BtnHistInit
    /\ iterations = 0 /\ df = 0 /\ fade = 0 /\ speed = 0 /\ itc = 0 /\ ktc = 0
    /\ OCR0B = 0 /\ fade_irq = FALSE
    /\ fadeh = NoFade /\ gens = 0
    /\ loop_i = 0 /\ loop_j = 0 /\ step = "lo" /\ ret = DEAD /\ nextstate = 0
    /\ deadcols = 0
    /\ st = NoStore /\ col = 0
    /\ \E s \in 0..MaxSeed : noise = SeedNoise(s)
    /\ polls = 0 /\ store = NoByte /\ scan = NoScan
    /\ ExtIdle
    /\ pc = "do_life"

\* fb_off = (fb_base + col) & 0x0F
ScanOffset(base, c) == (base + c) % 16

\* ISR(TIMER0_COMPA_vect) as the main context sees it: it reads
\* framebuf[fb_off] and moves on to the next column (its output side is the
\* subject of SpecScan)
Scanner ==
    LET fb_off == ScanOffset(fb_base, col)
        c == framebuf[fb_off]
    IN  /\ scan' = [mid |-> st.col = fb_off,
                    torn |-> st.col = fb_off /\ c # st.old /\ c # st.new,
                    during |-> IF st = NoStore THEN "none" ELSE store.by]
        /\ col' = (col + 1) % 8
        /\ UNCHANGED <<lifeVars, btnVars, locals, loopVars, st, noise, hist, extVars, polls,
                       store, pc>>

\* do_life: the declarations, FADE_LEVEL(fade), FADE_ON()
DoLifeEntry ==
    /\ pc = "do_life"
    /\ iterations' = 0 /\ df' = 2 /\ fade' = FADE_DARK /\ speed' = 8
    /\ itc' = 0 /\ ktc' = 0
    /\ OCR0B' = FADE_DARK /\ fade_irq' = TRUE
    /\ fadeh' = [from |-> FADE_DARK, steps |-> 0, was |-> 0, level |-> 0]
    /\ gens' = 0
    /\ loop_i' = 0
    /\ pc' = "clear_start"
    /\ UNCHANGED <<lifeVars, btnVars, loop_j, step, ret, nextstate, deadcols, st, col,
                   noise, extVars, polls, store, scan>>

\* clear_screen(start, cols): memset stores byte loop_i of cols << 1 zero bytes
ClearScreenByte(start, cols, next) ==
    LET c == start + loop_i \div 2
    IN  /\ IF loop_i % 2 = 0
           THEN /\ framebuf' = StoreLo(framebuf, c, 0)
                /\ st' = [col |-> c, old |-> framebuf[c], new |-> 0]
           ELSE /\ framebuf' = StoreHi(framebuf, c, 0)
                /\ st' = NoStore
        /\ store' = [col |-> c, vis |-> Visible(c, fb_base), by |-> "clear_screen"]
        /\ IF loop_i + 1 < cols * 2
           THEN loop_i' = loop_i + 1 /\ pc' = pc
           ELSE loop_i' = 0 /\ pc' = next

\* clear_screen(0, 16): clear both buffers
ClearStart ==
    /\ pc = "clear_start"
    /\ ClearScreenByte(0, 16, "set_base")
    /\ UNCHANGED <<fb_base, life_state, dst_before, btnVars, locals, loop_j,
                   step, ret, nextstate, deadcols, col, noise, hist, extVars, polls, scan>>

\* fb_base = 0: set the front buffer at 0
SetBase ==
    /\ pc = "set_base"
    /\ fb_base' = 0
    /\ loop_i' = 0 /\ step' = "lo"
    /\ pc' = "random_field"
    /\ UNCHANGED <<framebuf, life_state, dst_before, btnVars, locals, loop_j,
                   ret, nextstate, deadcols, st, col, noise, hist, extVars, polls, store, scan>>

\* random_field(&framebuf[8]): p[i] = (b << 1), one byte of it
RandomField ==
    /\ pc = "random_field"
    /\ LET c == 8 + loop_i
           w == RandomColumn(noise[loop_i])
       IN  /\ IF step = "lo"
              THEN /\ framebuf' = StoreLo(framebuf, c, w)
                   /\ st' = [col |-> c, old |-> framebuf[c], new |-> w]
                   /\ step' = "hi"
                   /\ UNCHANGED <<loop_i, pc>>
              ELSE /\ framebuf' = StoreHi(framebuf, c, w)
                   /\ st' = NoStore
                   /\ step' = "lo"
                   /\ loop_i' = (loop_i + 1) % 8
                   /\ pc' = IF loop_i + 1 < 8 THEN pc ELSE "seed_flip"
           /\ store' = [col |-> c, vis |-> Visible(c, fb_base), by |-> "random_field"]
    /\ UNCHANGED <<fb_base, life_state, dst_before, btnVars, locals, loop_j,
                   ret, nextstate, deadcols, col, noise, hist, extVars, polls, scan>>

\* fb_base ^= 8: flip buffers, after the seeding
SeedFlip ==
    /\ pc = "seed_flip"
    /\ fb_base' = Flip(fb_base)
    /\ pc' = "loop"
    /\ UNCHANGED <<framebuf, life_state, dst_before, btnVars, locals, loopVars,
                   st, col, noise, hist, extVars, polls, store, scan>>

\* mutant: a fade-out always begins at the level asked for
FadeOutFromAlways(d, f, level) == level

\* if (df == 0) { fade = level; ... }: the level a fade-out requested with
\* direction d and fade f begins at
FadeOutFrom(d, f, level) == IF d = 0 THEN level ELSE f

\* mutant: the iteration cap is forgotten
FadeOutWantedNoCap(ls, its) == ls # ACTIVE

\* life_state != ACTIVE || ++iterations > 35, its being iterations after the ++
FadeOutWanted(ls, its) == ls # ACTIVE \/ its > 35

\* fading in: if (fade < FADE_BRIGHT)
FadeInGoesOn(f) == f < FADE_BRIGHT

\* mutant: the fade-out takes the step that reaches 0
FadeOutGoesOnToZero(f, d) == f >= -d

\* mutant: the fade-out ends at its first step
FadeOutGoesOnNever(f, d) == FALSE

\* fading out: if (fade > -df)
FadeOutGoesOn(f, d) == f > -d

\* the reaction of do_life to the value b of GetButtons: the new locals
ButtonsEffect(b) ==
    IF BitAnd(b, BUTTON_LEFT) # 0          \* pause/speed
    THEN [itc |-> 0, speed |-> BitAnd(speed + 4, 15), df |-> df, fade |-> fade,
          OCR0B |-> OCR0B, fade_irq |-> fade_irq]
    ELSE IF BitAnd(b, BUTTON_RIGHT) # 0    \* fade out
    THEN [itc |-> itc, speed |-> speed, df |-> -2,
          fade |-> FadeOutFrom(df, fade, FADE_BRIGHT),
          OCR0B |-> FadeOutFrom(df, OCR0B, FADE_BRIGHT),
          fade_irq |-> IF df = 0 THEN TRUE ELSE fade_irq]
    ELSE [itc |-> itc, speed |-> speed, df |-> df, fade |-> fade,
          OCR0B |-> OCR0B, fade_irq |-> fade_irq]

\* if (++ktc == 5): ktc = 0, buttons = GetButtons() and the reaction to it
PollButtons ==
    /\ pc = "loop"
    /\ U8(ktc + 1) = 5
    /\ ktc' = 0
    /\ \E pinc \in PincValues :
          /\ CurState(pinc) # 3 => polls < MaxPressPoll
          /\ polls' = Min(polls + 1, MaxPressPoll)
          /\ LET res == GetButtons(prevState, repeat, pinc)
                 eff == ButtonsEffect(res.ret)
             IN  /\ prevState' = res.prevState
                 /\ repeat' = res.repeat
                 /\ buttons' = res.ret
                 /\ itc' = eff.itc /\ speed' = eff.speed /\ df' = eff.df
                 /\ fade' = eff.fade /\ OCR0B' = eff.OCR0B
                 /\ fade_irq' = eff.fade_irq
                 /\ fadeh' = IF eff.df < 0 /\ df >= 0
                             THEN [from |-> eff.fade, steps |-> 0, was |-> df,
                                   level |-> fade]
                             ELSE fadeh
    /\ UNCHANGED gens
    /\ pc' = "update"
    /\ UNCHANGED <<lifeVars, btnHist, iterations, loopVars, st, col, noise, extVars,
                   store, scan>>

\* if (++ktc == 5) not taken
SkipPoll ==
    /\ pc = "loop"
    /\ U8(ktc + 1) # 5
    /\ ktc' = U8(ktc + 1)
    /\ pc' = "update"
    /\ UNCHANGED <<lifeVars, btnVars, iterations, df, fade, speed, itc, OCR0B,
                   fade_irq, loopVars, st, col, noise, hist, extVars, polls, store, scan>>

\* if (speed > 0 && ++itc == speed): itc = 0 and life() is entered
StartLife ==
    /\ pc = "update"
    /\ speed > 0 /\ U8(itc + 1) = speed
    /\ itc' = 0
    /\ loop_i' = 0 /\ loop_j' = 0 /\ step' = "and_lo"
    /\ ret' = DEAD /\ deadcols' = 0
    /\ dst_before' = Half(framebuf, LifeDstBase(fb_base))
    /\ pc' = "life"
    /\ UNCHANGED <<framebuf, fb_base, life_state, btnVars, iterations, df, fade,
                   speed, ktc, OCR0B, fade_irq, nextstate, st, col, noise, hist, extVars,
                   polls, store, scan>>

\* if (speed > 0 && ++itc == speed) not taken
NoLife ==
    /\ pc = "update"
    /\ ~(speed > 0 /\ U8(itc + 1) = speed)
    /\ itc' = IF speed > 0 THEN U8(itc + 1) ELSE itc
    /\ pc' = "fade"
    /\ UNCHANGED <<lifeVars, btnVars, iterations, df, fade, speed, ktc, OCR0B,
                   fade_irq, loopVars, st, col, noise, hist, extVars, polls, store, scan>>

\* life(&framebuf[fb_base], &framebuf[fb_base ^ 8]): the next 8-bit store of
\* dst[i] &= ~(3 << j); dst[i] |= (nextstate << j), and after the last one of
\* a column its colstate
LifeStore ==
    /\ pc = "life"
    /\ LET c == LifeDstBase(fb_base) + loop_i
           srcb == Half(framebuf, fb_base)
       IN  /\ store' = [col |-> c, vis |-> Visible(c, fb_base), by |-> "life"]
           /\ CASE step = "and_lo" ->
                    LET w == ClearField(framebuf[c], loop_j)
                    IN  /\ nextstate' = NextState(Field(srcb[loop_i], loop_j),
                                                  Neighbors(srcb, loop_i, loop_j))
                        /\ framebuf' = StoreLo(framebuf, c, w)
                        /\ st' = [col |-> c, old |-> framebuf[c], new |-> w]
                        /\ step' = "and_hi"
                        /\ UNCHANGED <<loop_i, loop_j, ret, deadcols, pc>>
                [] step = "and_hi" ->
                    /\ framebuf' = StoreHi(framebuf, c, st.new)
                    /\ st' = NoStore
                    /\ step' = "or_lo"
                    /\ UNCHANGED <<loop_i, loop_j, ret, nextstate, deadcols, pc>>
                [] step = "or_lo" ->
                    LET w == OrField(framebuf[c], loop_j, nextstate)
                    IN  /\ framebuf' = StoreLo(framebuf, c, w)
                        /\ st' = [col |-> c, old |-> framebuf[c], new |-> w]
                        /\ step' = "or_hi"
                        /\ UNCHANGED <<loop_i, loop_j, ret, nextstate, deadcols, pc>>
                [] step = "or_hi" ->
                    /\ framebuf' = StoreHi(framebuf, c, st.new)
                    /\ st' = NoStore
                    /\ step' = "and_lo"
                    /\ UNCHANGED nextstate
                    /\ IF loop_j + 2 < 16
                       THEN /\ loop_j' = loop_j + 2
                            /\ UNCHANGED <<loop_i, ret, deadcols, pc>>
                       ELSE LET colstate == ColState(framebuf'[c], srcb[loop_i])
                            IN  /\ loop_j' = 0
                                /\ deadcols' = IF colstate = DEAD
                                               THEN deadcols + 1 ELSE deadcols
                                /\ ret' = IF colstate > ret THEN colstate ELSE ret
                                /\ loop_i' = (loop_i + 1) % 8
                                /\ pc' = IF loop_i + 1 < 8 THEN pc ELSE "life_end"
    /\ UNCHANGED <<fb_base, life_state, dst_before, btnVars, locals, col, noise, hist, extVars,
                   polls, scan>>

\* life() returns; if (life_state != ACTIVE || ++iterations > 35) fade out
LifeEnd ==
    /\ pc = "life_end"
    /\ LET ls == LifeReturn(ret, deadcols)
           its == IF ls = ACTIVE THEN (iterations + 1) % 65536 ELSE iterations
           out == FadeOutWanted(ls, its)
       IN  /\ life_state' = ls
           /\ iterations' = its
           /\ fade' = IF out
                      THEN FadeOutFrom(df, fade, IF ls = DEAD THEN FADE_DARK
                                                 ELSE FADE_BRIGHT)
                      ELSE fade
           /\ OCR0B' = IF out /\ df = 0 THEN fade' ELSE OCR0B
           /\ fade_irq' = IF out /\ df = 0 THEN TRUE ELSE fade_irq
           /\ df' = IF out THEN -2 ELSE df
           /\ fadeh' = IF out /\ df >= 0
                       THEN [from |-> fade', steps |-> 0, was |-> df,
                             level |-> fade]
                       ELSE fadeh
    /\ gens' = gens + 1
    /\ pc' = "flip"
    /\ UNCHANGED <<framebuf, fb_base, dst_before, btnVars, speed, itc, ktc,
                   loopVars, st, col, noise, extVars, polls, store, scan>>

\* fb_base ^= 8: page flip
PageFlip ==
    /\ pc = "flip"
    /\ fb_base' = Flip(fb_base)
    /\ pc' = "fade"
    /\ UNCHANGED <<framebuf, life_state, dst_before, btnVars, locals, loopVars,
                   st, col, noise, hist, extVars, polls, store, scan>>

\* handle fading, then Sleep(MILLIS(10)) or break
FadeStep ==
    /\ pc = "fade"
    /\ IF df > 0
       THEN IF FadeInGoesOn(fade)
            THEN /\ fade' = U8(fade + df) /\ OCR0B' = fade'
                 /\ fadeh' = [fadeh EXCEPT !.steps = @ + 1]
                 /\ pc' = "loop"
                 /\ UNCHANGED <<df, fade_irq>>
            ELSE /\ df' = 0 /\ fade_irq' = FALSE
                 /\ pc' = "loop"
                 /\ UNCHANGED <<fade, OCR0B, fadeh>>
       ELSE IF df < 0
       THEN IF FadeOutGoesOn(fade, df)
            THEN /\ fade' = U8(fade + df) /\ OCR0B' = fade'
                 /\ fadeh' = [fadeh EXCEPT !.steps = @ + 1]
                 /\ pc' = "loop"
                 /\ UNCHANGED <<df, fade_irq>>
            ELSE /\ pc' = "clear_end"
                 /\ UNCHANGED <<df, fade, OCR0B, fade_irq, fadeh>>
       ELSE /\ pc' = "loop"
            /\ UNCHANGED <<df, fade, OCR0B, fade_irq, fadeh>>
    /\ loop_i' = 0
    /\ UNCHANGED <<gens, lifeVars, btnVars, iterations, speed, itc, ktc, loop_j, step,
                   ret, nextstate, deadcols, st, col, noise, extVars, polls, store, scan>>

\* clear_screen(0, 16) after the loop, then FADE_OFF() with the last byte
ClearEnd ==
    /\ pc = "clear_end"
    /\ ClearScreenByte(0, 16, "done")
    /\ fade_irq' = IF pc' = "done" THEN FALSE ELSE fade_irq
    /\ UNCHANGED <<fb_base, life_state, dst_before, btnVars, iterations, df,
                   fade, speed, itc, ktc, OCR0B, loop_j, step, ret, nextstate,
                   deadcols, col, noise, hist, extVars, polls, scan>>

Next ==
    \/ Scanner
    \/ DoLifeEntry
    \/ ClearStart
    \/ SetBase
    \/ RandomField
    \/ SeedFlip
    \/ PollButtons
    \/ SkipPoll
    \/ StartLife
    \/ NoLife
    \/ LifeStore
    \/ LifeEnd
    \/ PageFlip
    \/ FadeStep
    \/ ClearEnd

Spec == Init /\ [][Next]_vars

----------------------------------------------------------------------------
(* SpecDoLife: the main context of a do_life session alone.  The scanner   *)
(* interrupt writes nothing that the main context reads, so it is left     *)
(* out, and the sessions can be long ones: the seeds include a glider,     *)
(* which stays ACTIVE until the iteration cap.  FairDoLife adds that the   *)
(* main context keeps running: every Sleep returns.                        *)

InitDoLife ==
    /\ framebuf = [c \in 0..15 |-> 0]
    /\ fb_base = 0
    /\ life_state = DEAD
    /\ dst_before = Fill(0)
    /\ BtnInit /\ BtnHistInit
    /\ iterations = 0 /\ df = 0 /\ fade = 0 /\ speed = 0 /\ itc = 0 /\ ktc = 0
    /\ OCR0B = 0 /\ fade_irq = FALSE
    /\ fadeh = NoFade /\ gens = 0
    /\ loop_i = 0 /\ loop_j = 0 /\ step = "lo" /\ ret = DEAD /\ nextstate = 0
    /\ deadcols = 0
    /\ st = NoStore /\ col = 0
    /\ \E s \in (0..MaxSeed) \cup {GliderSeed} : noise = SeedNoise(s)
    /\ polls = 0 /\ store = NoByte /\ scan = NoScan
    /\ ExtIdle
    /\ pc = "do_life"

NextDoLife ==
    \/ DoLifeEntry
    \/ ClearStart
    \/ SetBase
    \/ RandomField
    \/ SeedFlip
    \/ PollButtons
    \/ SkipPoll
    \/ StartLife
    \/ NoLife
    \/ LifeStore
    \/ LifeEnd
    \/ PageFlip
    \/ FadeStep
    \/ ClearEnd

SpecDoLife == InitDoLife /\ [][NextDoLife]_vars

FairDoLife == SpecDoLife /\ WF_vars(NextDoLife)

----------------------------------------------------------------------------
(* SpecHello: hello_world() called again and again, each call with the     *)
(* byte badrand() gives it for r.  The 64-bit mask is the set of its bits  *)
(* that are 1.  DrawTextP and DrawText are not part of matrix.c: of the    *)
(* drawing only clear_screen(0, 16) is modelled.                           *)

Quotes == 0..63

\* the bytes badrand() returns for r: both ends and the middle of the table,
\* with and without the two bits that & 63 drops
RandBytes == {0, 31, 63, 64, 95, 255}

\* if (maskus == 0) maskus = ~0ULL
RefillMask(m) == IF m = {} THEN Quotes ELSE m

\* mutant: the probe skips every other index
NextIndexBy2(r) == (r + 2) % 64

\* r = (r + 1) & 63
NextIndex(r) == (r + 1) % 64

\* the for (;;) loop from its n-th iteration on: the index it breaks at, or
\* found = FALSE when 64 iterations have tested every index in vain
RECURSIVE Probe(_, _, _)
Probe(m, r, n) ==
    IF n >= 64 THEN [r |-> r, probes |-> n, found |-> FALSE]
    ELSE IF r \in m THEN [r |-> r, probes |-> n, found |-> TRUE]
    ELSE Probe(m, NextIndex(r), n + 1)

\* maskus &= ~bit
ClearBit(m, r) == m \ {r}

InitHello ==
    /\ framebuf \in {[c \in 0..15 |-> 0], [c \in 0..15 |-> 65535]}
    /\ fb_base = 0
    /\ life_state = DEAD
    /\ dst_before = Fill(0)
    /\ BtnInit /\ BtnHistInit
    /\ SessIdle
    /\ pc = "hello_world"

\* hello_world(): the pick, then clear_screen(0, 16)
HelloWorld ==
    /\ pc = "hello_world"
    /\ \E byte \in RandBytes :
          LET r0 == byte % 64
              m == RefillMask(maskus)
              p == Probe(m, r0, 0)
              before == IF maskus = {} THEN {} ELSE quoted
          IN  /\ maskus' = IF p.found THEN ClearBit(m, p.r) ELSE m
              /\ quoted' = IF p.found THEN before \cup {p.r} ELSE before
              /\ pick' = [r |-> p.r, start |-> r0, probes |-> p.probes,
                          found |-> p.found, fresh |-> p.r \notin before,
                          refilled |-> maskus = {},
                          nth |-> IF maskus = {} THEN 1 ELSE pick.nth + 1]
    /\ framebuf' = [c \in 0..15 |-> 0]
    /\ UNCHANGED <<fb_base, life_state, dst_before, btnVars, doLifeVars,
                   scanVars, sleepVars, pc>>

NextHello == HelloWorld

SpecHello == InitHello /\ [][NextHello]_vars

----------------------------------------------------------------------------
(* SpecSeed: random_field(&framebuf[8]) run on the 64 bits it samples.     *)
(* The samples of column c are the bits of the byte b + 37c, for every     *)
(* byte b, sample k being bit k; the target half is blank or all ones.     *)

NoiseBytes == 0..255

NoiseOf(b) == [c \in Cols |-> [k \in 0..7 |-> (((b + 37 * c) % 256) \div (2^k)) % 2]]

InitSeed ==
    /\ \E v \in {0, 65535} : framebuf = [c \in 0..15 |-> v]
    /\ fb_base = 0
    /\ life_state = DEAD
    /\ dst_before = Fill(0)
    /\ BtnInit /\ BtnHistInit
    /\ iterations = 0 /\ df = 0 /\ fade = 0 /\ speed = 0 /\ itc = 0 /\ ktc = 0
    /\ OCR0B = 0 /\ fade_irq = FALSE
    /\ fadeh = NoFade /\ gens = 0
    /\ loop_i = 0 /\ loop_j = 0 /\ step = "lo" /\ ret = DEAD /\ nextstate = 0
    /\ deadcols = 0
    /\ st = NoStore /\ col = 0
    /\ \E b \in NoiseBytes : noise = NoiseOf(b)
    /\ polls = 0 /\ store = NoByte /\ scan = NoScan
    /\ ExtIdle
    /\ pc = "seed"

\* random_field((uint16_t *)&framebuf[8]): p[i] = (b << 1) for i = 0..7
RandomFieldCall ==
    /\ pc = "seed"
    /\ framebuf' = [c \in 0..15 |-> IF c >= 8 THEN RandomColumn(noise[c - 8])
                                    ELSE framebuf[c]]
    /\ pc' = "seeded"
    /\ UNCHANGED <<fb_base, life_state, dst_before, btnVars, sessVars>>

NextSeed == RandomFieldCall

SpecSeed == InitSeed /\ [][NextSeed]_vars

----------------------------------------------------------------------------
(* SpecScan: ISR(TIMER0_COMPA_vect) statement by statement, with the fade  *)
(* interrupt TIMER0_COMPB and the main context's writes of fb_base between *)
(* its runs (an interrupt handler runs with interrupts disabled).  The row *)
(* shift registers take the DATA line in on the rising edge of SCK and     *)
(* copy their 16 bits to the outputs on the rising edge of LATCH.          *)

\* if (c & 1) DATA_0(); else DATA_1();
DataLine(c) == 1 - (c % 2)

\* SCK_1(): the registers shift by one and take the DATA line in
ShiftIn(reg, data) == (reg * 2 + data) % 65536

\* mutant: the lines are counted from the other end
ColumnLineFromRight(c) == 2^c

\* (uint8_t)0x80U >> col
ColumnLine(c) == 128 \div (2^c)

\* a frame buffer whose 16 columns all differ
Stripes(k) == [c \in 0..15 |-> (4369 * c + k) % 65536]

InitScan ==
    /\ \E k \in {1, 43690} : framebuf = Stripes(k)
    /\ fb_base \in {0, 13}
    /\ life_state = DEAD
    /\ dst_before = Fill(0)
    /\ BtnInit /\ BtnHistInit
    /\ iterations = 0 /\ df = 0 /\ fade = 0 /\ speed = 0 /\ itc = 0 /\ ktc = 0
    /\ OCR0B = 0 /\ fade_irq \in BOOLEAN
    /\ fadeh = NoFade /\ gens = 0
    /\ loop_i = 0 /\ loop_j = 0 /\ step = "lo" /\ ret = DEAD /\ nextstate = 0
    /\ deadcols = 0
    /\ st = NoStore /\ col = 0
    /\ noise = [c \in Cols |-> [k \in 0..7 |-> 0]]
    /\ polls = 0 /\ store = NoByte /\ scan = NoScan
    /\ ExtIdle
    /\ pc = "main"

scanRest == <<framebuf, life_state, dst_before, btnVars, locals, loopVars, st,
              noise, polls, store, scan, hist, helloVars, sleepVars, pc>>

\* fb_off = (fb_base + col) & 0x0F; c = framebuf[fb_off]; LATCH_0()
ScanEnter ==
    /\ isr_pc = "idle" /\ tick < MaxTick
    /\ LET fb_off == ScanOffset(fb_base, col)
       IN  /\ isr_c' = framebuf[fb_off]
           /\ rd' = [col |-> col, off |-> fb_off, base |-> fb_base,
                     word |-> framebuf[fb_off]]
    /\ isr_i' = 0
    /\ tick' = tick + 1
    /\ isr_pc' = "shift"
    /\ UNCHANGED <<fb_base, col, PORTD, sr, latch, shown, scanRest>>

\* one round of the for loop: SCK_0(); DATA; SCK_1(); c >>= 1
ScanShift ==
    /\ isr_pc = "shift"
    /\ sr' = ShiftIn(sr, DataLine(isr_c))
    /\ isr_c' = isr_c \div 2
    /\ isr_i' = isr_i + 1
    /\ isr_pc' = IF isr_i + 1 < 16 THEN "shift" ELSE "blank"
    /\ UNCHANGED <<fb_base, col, PORTD, latch, rd, shown, tick, scanRest>>

\* SCK_0(); PORTD = 0: turn off the display
ScanBlank ==
    /\ isr_pc = "blank"
    /\ PORTD' = 0
    /\ isr_pc' = "latch"
    /\ UNCHANGED <<fb_base, col, sr, latch, isr_c, isr_i, rd, shown, tick, scanRest>>

\* LATCH_1(): latch the new value
ScanLatch ==
    /\ isr_pc = "latch"
    /\ latch' = sr
    /\ shown' = rd
    /\ isr_pc' = "drive"
    /\ UNCHANGED <<fb_base, col, PORTD, sr, isr_c, isr_i, rd, tick, scanRest>>

\* PORTD = (uint8_t)0x80U >> col: turn on this column
ScanDrive ==
    /\ isr_pc = "drive"
    /\ PORTD' = ColumnLine(col)
    /\ isr_pc' = "next"
    /\ UNCHANGED <<fb_base, col, sr, latch, isr_c, isr_i, rd, shown, tick, scanRest>>

\* col = (col + 1) & 7, and the handler returns
ScanNext ==
    /\ isr_pc = "next"
    /\ col' = (col + 1) % 8
    /\ isr_pc' = "idle"
    /\ UNCHANGED <<fb_base, PORTD, sr, latch, isr_c, isr_i, rd, shown, tick, scanRest>>

\* ISR(TIMER0_COMPB_vect): PORTD = 0 (a run that finds the lines off already
\* changes nothing)
FadeIrq ==
    /\ isr_pc = "idle" /\ fade_irq
    /\ PORTD # 0
    /\ PORTD' = 0
    /\ UNCHANGED <<fb_base, col, sr, latch, isr_pc, isr_c, isr_i, rd, shown, tick,
                   scanRest>>

\* the main context writes fb_base: fb_base = 0 or fb_base ^= 8
MainSetBase ==
    /\ isr_pc = "idle"
    /\ \E b \in {0, Flip(fb_base)} : fb_base' = b /\ b # fb_base
    /\ UNCHANGED <<col, PORTD, sr, latch, isr_pc, isr_c, isr_i, rd, shown, tick,
                   scanRest>>

NextScan ==
    \/ ScanEnter
    \/ ScanShift
    \/ ScanBlank
    \/ ScanLatch
    \/ ScanDrive
    \/ ScanNext
    \/ FadeIrq
    \/ MainSetBase

SpecScan == InitScan /\ [][NextScan]_vars

----------------------------------------------------------------------------
(* SpecSleep: one call Sleep(kiloclocks), kiloclocks > 0, statement by     *)
(* statement, with timer 1 counting while it runs, ISR(TIMER1_COMPA_vect)  *)
(* served whenever a compare match is pending and enabled, and the other   *)
(* interrupts (timer 0) waking the CPU from idle mode.  The flag wakeup is *)
(* whatever an earlier call left.                                          *)

\* TCCR1A = 0; TCCR1B = 0; TIFR1 = (1 << OCF1A); OCR1A = kiloclocks; TCNT1 = 0
\* (the timer is stopped and its interrupt disabled: nothing runs between)
SleepSetup ==
    /\ pc = "sleep"
    /\ TCCR1B' = 0
    /\ OCF1A' = FALSE
    /\ OCR1A' = kiloclocks
    /\ TCNT1' = 0
    /\ pc' = "sleep_enable"
    /\ UNCHANGED <<wakeup, TIMSK1, asleep, kiloclocks, slp>>

\* if (kiloclocks > 0) TIMSK1 = (1 << OCIE1A)
SleepEnable ==
    /\ pc = "sleep_enable"
    /\ TIMSK1' = IF kiloclocks > 0 THEN 2 ELSE TIMSK1
    /\ pc' = "sleep_start"
    /\ UNCHANGED <<wakeup, TCCR1B, OCF1A, TCNT1, OCR1A, asleep, kiloclocks, slp>>

\* TCCR1B = (1 << CS12) | (1 << CS10): start timer with 1/1024 prescaler
SleepStart ==
    /\ pc = "sleep_start"
    /\ TCCR1B' = 5
    /\ pc' = "sleep_clear"
    /\ UNCHANGED <<wakeup, TIMSK1, OCF1A, TCNT1, OCR1A, asleep, kiloclocks, slp>>

\* wakeup = 0
SleepClear ==
    /\ pc = "sleep_clear"
    /\ wakeup' = 0
    /\ slp' = [slp EXCEPT !.lost = slp.set]
    /\ pc' = "sleep_mode"
    /\ UNCHANGED <<TIMSK1, TCCR1B, OCF1A, TCNT1, OCR1A, asleep, kiloclocks>>

\* sleep_mode(): the CPU goes idle until an interrupt wakes it
SleepMode ==
    /\ pc = "sleep_mode"
    /\ asleep' = TRUE
    /\ pc' = "sleep_test"
    /\ UNCHANGED <<wakeup, TIMSK1, TCCR1B, OCF1A, TCNT1, OCR1A, kiloclocks, slp>>

\* while (!wakeup)
SleepTest ==
    /\ pc = "sleep_test" /\ ~asleep
    /\ pc' = IF wakeup = 0 THEN "sleep_mode" ELSE "sleep_off"
    /\ UNCHANGED sleepVars

\* TIMSK1 = 0; TCCR1B = 0: stop the interrupt, stop the timer, return
SleepOff ==
    /\ pc = "sleep_off"
    /\ TIMSK1' = 0
    /\ TCCR1B' = 0
    /\ pc' = "sleep_done"
    /\ UNCHANGED <<wakeup, OCF1A, TCNT1, OCR1A, asleep, kiloclocks, slp>>

\* timer 1 counts one prescaled clock: a compare match sets OCF1A, the
\* 16-bit counter wraps
Timer1Tick ==
    /\ TCCR1B # 0
    /\ OCF1A' = (OCF1A \/ TCNT1 = OCR1A)
    /\ TCNT1' = (TCNT1 + 1) % 65536
    /\ UNCHANGED <<wakeup, TIMSK1, TCCR1B, OCR1A, asleep, kiloclocks, slp, pc>>

\* ISR(TIMER1_COMPA_vect): wakeup = 1
Timer1Irq ==
    /\ OCF1A /\ TIMSK1 # 0
    /\ OCF1A' = FALSE
    /\ wakeup' = 1
    /\ asleep' = FALSE
    /\ slp' = [slp EXCEPT !.matches = Min(@ + 1, 2), !.set = TRUE]
    /\ UNCHANGED <<TIMSK1, TCCR1B, TCNT1, OCR1A, kiloclocks, pc>>

\* another interrupt (timer 0) is served: it wakes the CPU
OtherIrq ==
    /\ asleep
    /\ asleep' = FALSE
    /\ UNCHANGED <<wakeup, TIMSK1, TCCR1B, OCF1A, TCNT1, OCR1A, kiloclocks, slp, pc>>

InitSleep ==
    /\ framebuf = [c \in 0..15 |-> 0]
    /\ fb_base = 0
    /\ life_state = DEAD
    /\ dst_before = Fill(0)
    /\ BtnInit /\ BtnHistInit
    /\ iterations = 0 /\ df = 0 /\ fade = 0 /\ speed = 0 /\ itc = 0 /\ ktc = 0
    /\ OCR0B = 0 /\ fade_irq = FALSE
    /\ fadeh = NoFade /\ gens = 0
    /\ loop_i = 0 /\ loop_j = 0 /\ step = "lo" /\ ret = DEAD /\ nextstate = 0
    /\ deadcols = 0
    /\ st = NoStore /\ col = 0
    /\ noise = [c \in Cols |-> [k \in 0..7 |-> 0]]
    /\ polls = 0 /\ store = NoByte /\ scan = NoScan
    /\ HelloIdle /\ ScanIdle
    /\ wakeup \in {0, 1}
    /\ TIMSK1 = 0 /\ TCCR1B = 0 /\ OCF1A = FALSE /\ TCNT1 = 0 /\ OCR1A = 0
    /\ asleep = FALSE
    /\ kiloclocks \in 1..MaxKilo
    /\ slp = NoSleep
    /\ pc = "sleep"

NextSleep ==
    /\ \/ SleepSetup
       \/ SleepEnable
       \/ SleepStart
       \/ SleepClear
       \/ SleepMode
       \/ SleepTest
       \/ SleepOff
       \/ Timer1Tick
       \/ Timer1Irq
       \/ OtherIrq
    /\ UNCHANGED <<lifeVars, btnVars, doLifeVars, helloVars, scanVars>>

SpecSleep == InitSleep /\ [][NextSleep]_vars

----------------------------------------------------------------------------
(* Properties of life(), checked under SpecLife *)

\* the cell at column i, row r of board b
CellAt(b, i, r) == (b[i] \div (4^r)) % 4

\* the live cells among the eight neighbours of (i, r) on the 8x8 torus
LiveNeighbours(b, i, r) ==
    {d \in ({-1, 0, 1} \X {-1, 0, 1}) \ {<<0, 0>>} :
        CellAt(b, (i + d[1] + 8) % 8, (r + d[2] + 8) % 8) # 0}

Count(b, i, r) == Cardinality(LiveNeighbours(b, i, r))

\* the reference rule of the two-colour game
RefRule(v, n) ==
    CASE v = 0 /\ n = 3 -> 1
      [] v = 0 /\ n # 3 -> 0
      [] v # 0 /\ n \notin {2, 3} -> 0
      [] v = 1 /\ n \in {2, 3} -> 3
      [] v \in {2, 3} /\ n \in {2, 3} -> 2

AllDead(b) == \A i \in Cols : b[i] = 0
DeadCols(b) == Cardinality({i \in Cols : b[i] = 0})
LifeDone == pc = "life_done"

\* C2: after life(src, dst) every cell of dst has the value the reference
\* rule gives for the source cell and its count of live neighbours on the
\* torus, whatever dst held before the call.
C2_LifeMatchesReferenceRule ==
    LifeDone =>
        \A i \in Cols, r \in 0..7 :
            CellAt(Dst, i, r) = RefRule(CellAt(Src, i, r), Count(Src, i, r))

\* C2 witness: a call on a destination that was not blank, with a live cell
\* whose eight neighbours (two of them across a seam) are all alive.
C2_Witness ==
    /\ LifeDone
    /\ \E i \in Cols : dst_before[i] # 0
    /\ \E i \in {0, 7}, r \in {0, 7} :
          CellAt(Src, i, r) # 0 /\ Count(Src, i, r) = 8

\* C3 as claimed: DEAD iff the new generation is all zero; otherwise STEADY
\* iff it equals the source or has at least 7 zero columns; otherwise ACTIVE.
C3_ClassificationAsClaimed ==
    LifeDone =>
        life_state = IF AllDead(Dst) THEN DEAD
                     ELSE IF Dst = Src \/ DeadCols(Dst) >= 7 THEN STEADY
                     ELSE ACTIVE

\* C4 as claimed: a generation equal to its source is classified STEADY.
C4_FixedPointIsSteady ==
    (LifeDone /\ Dst = Src) => life_state = STEADY

\* C4 amended: a generation equal to its source, other than the all-dead
\* board, is classified STEADY; the all-dead board is classified DEAD.
C4_LiveFixedPointIsSteady ==
    (LifeDone /\ Dst = Src) =>
        life_state = IF AllDead(Src) THEN DEAD ELSE STEADY

\* C4 witness: a still life that life() reproduced bit for bit.
C4_Witness == LifeDone /\ Dst = Src /\ ~AllDead(Src)

\* C5: life() on the all-dead board writes the all-dead board and returns
\* DEAD, whatever dst held before.
C5_DeadStaysDead ==
    (LifeDone /\ AllDead(Src)) => (AllDead(Dst) /\ life_state = DEAD)

\* C5 witness: the all-dead board stepped onto a destination full of ones.
C5_Witness ==
    LifeDone /\ AllDead(Src) /\ \A i \in Cols : dst_before[i] = 65535

\* C6: a new generation with exactly 7 zero columns is classified STEADY.
C6_SevenDeadColumnsIsSteady ==
    (LifeDone /\ DeadCols(Dst) = 7) => life_state = STEADY

\* C6 witness: exactly 7 zero columns, and the remaining column has changed.
C6_Witness ==
    /\ LifeDone
    /\ DeadCols(Dst) = 7
    /\ \E i \in Cols : Dst[i] # 0 /\ Src[i] # 0 /\ Dst[i] # Src[i]

Survives(b, i, r) == CellAt(b, i, r) # 0 /\ Count(b, i, r) \in {2, 3}

\* C7 as claimed: a live cell with 2 or 3 live neighbours survives, and a
\* survivor that was not young (green) keeps the colour it had.
C7_SurvivorKeepsColourUnlessYoung ==
    LifeDone =>
        \A i \in Cols, r \in 0..7 :
            Survives(Src, i, r) =>
                /\ CellAt(Dst, i, r) # 0
                /\ CellAt(Src, i, r) # 1 => CellAt(Dst, i, r) = CellAt(Src, i, r)

\* C7 amended: a live cell with 2 or 3 live neighbours survives; a green
\* survivor turns orange, an orange survivor turns red and a red survivor
\* stays red, so the new colour is a function of the previous colour alone.
C7_SurvivorColourByPreviousColour ==
    LifeDone =>
        \A i \in Cols, r \in 0..7 :
            Survives(Src, i, r) =>
                CellAt(Dst, i, r) =
                    (CASE CellAt(Src, i, r) = 1 -> 3
                       [] CellAt(Src, i, r) = 3 -> 2
                       [] CellAt(Src, i, r) = 2 -> 2)

\* C7 witness: survivors of every colour, with 2 and with 3 neighbours.
C7_Witness ==
    /\ LifeDone
    /\ \A v \in 1..3 : \E n \in {2, 3} : \E i \in Cols, r \in 0..7 :
          CellAt(Src, i, r) = v /\ Count(Src, i, r) = n /\ CellAt(Dst, i, r) # 0
    /\ \E i \in Cols, r \in 0..7 :
          CellAt(Src, i, r) = 3 /\ Count(Src, i, r) = 2 /\ CellAt(Dst, i, r) = 2
    /\ \E i \in Cols, r \in 0..7 :
          CellAt(Src, i, r) = 3 /\ Count(Src, i, r) = 3 /\ CellAt(Dst, i, r) = 2

----------------------------------------------------------------------------
(* Properties of GetButtons(), checked under SpecButtons *)

HoldBit(x) == (x \div BUTTON_HOLD) % 2 = 1

\* the press event of the button whose line reads low in pattern `line':
\* BUTTON_LEFT for PC4 (pattern 2), BUTTON_RIGHT for PC5 (pattern 1)
PressEvent(line) == 3 - line

\* the value of the repeat counter after the polls of the tap so far, had
\* nothing stopped it
TapRepeat == tap.start + tap.polls - 1

\* C8 as claimed: in a tap that starts released with the repeat counter at 0,
\* the poll that first observes the button down returns the press event of
\* that button, and the poll that observes the release returns 0, which
\* leaves exactly one non-zero event.
C8_TapPressOnDown ==
    /\ (tap.phase = "down" /\ tap.polls = 1 /\ tap.start = 0)
          => buttons = PressEvent(tap.line)
    /\ (tap.phase = "up" /\ tap.start = 0)
          => (buttons = 0 /\ tap.events = 1)

\* C8 amended: in a tap of fewer than REPEAT_THRESHOLD polls that starts
\* released and not held, with the repeat counter at r, every poll that
\* observes the button down returns 0 and the poll that observes the release
\* returns the press event of that button, the one non-zero event of the tap,
\* as long as the counter stays below REPEAT_THRESHOLD (always, from r = 0);
\* if it reaches REPEAT_THRESHOLD on a poll of the tap, that poll returns the
\* hold event, which is then the one non-zero event, and the release
\* returns 0.
C8_TapPressOnRelease ==
    /\ tap.phase = "down" =>
          /\ repeat = Min(TapRepeat, REPEAT_THRESHOLD)
          /\ buttons = IF TapRepeat = REPEAT_THRESHOLD /\ tap.polls > 1
                       THEN 255 - tap.line ELSE 0
    /\ tap.phase = "up" =>
          /\ tap.events = 1
          /\ buttons = IF TapRepeat < REPEAT_THRESHOLD
                       THEN PressEvent(tap.line) ELSE 0
    /\ (tap.phase # "none" /\ tap.start = 0) => TapRepeat < REPEAT_THRESHOLD

\* C8 witness: the left button tapped for several polls from a zero counter;
\* the release has just returned BUTTON_LEFT.
C8_Witness ==
    /\ tap.phase = "up" /\ tap.start = 0 /\ tap.line = 2 /\ tap.polls > 2
    /\ buttons = BUTTON_LEFT /\ tap.events = 1

\* C9: the poll on which the repeat counter reaches REPEAT_THRESHOLD returns
\* an event with BUTTON_HOLD set and tagged with the buttons that are down;
\* no other poll returns BUTTON_HOLD; every poll made in the held state
\* returns 0 and stores the pattern, and the first one that reads both
\* buttons released resets the counter, the others leave it alone.
C9_HoldOnceThenSilentUntilRelease ==
    /\ repeat <= REPEAT_THRESHOLD
    /\ (seen.repeat = REPEAT_THRESHOLD - 1 /\ repeat = REPEAT_THRESHOLD)
          => /\ HoldBit(buttons)
             /\ seen.cur # 3
             /\ buttons % 4 = 3 - seen.cur
    /\ HoldBit(buttons)
          => (seen.repeat = REPEAT_THRESHOLD - 1 /\ repeat = REPEAT_THRESHOLD)
    /\ seen.repeat >= REPEAT_THRESHOLD
          => /\ buttons = 0
             /\ prevState = seen.cur
             /\ repeat = IF seen.cur = 3 THEN 0 ELSE seen.repeat

\* C9 witness: a poll in the held state has just read both buttons released.
C9_Witness ==
    /\ seen.repeat = REPEAT_THRESHOLD /\ seen.cur = 3 /\ seen.prev # 3
    /\ repeat = 0 /\ prevState = 3 /\ buttons = 0

\* C10 as claimed: a poll outside the held state that reads a pattern
\* different from the previous one leaves the repeat counter at 0, and a hold
\* event is returned only by a poll that is at least the REPEAT_THRESHOLD-th
\* in a row to read the same pattern.
C10_ChangeResetsRepeat ==
    /\ (seen.cur # seen.prev /\ seen.repeat < REPEAT_THRESHOLD) => repeat = 0
    /\ HoldBit(buttons) => run >= REPEAT_THRESHOLD

----------------------------------------------------------------------------
(* Properties of the frame buffer in a do_life session, checked under Spec *)

\* C1 as claimed: across the whole session, the clear_screen calls included,
\* the scanner never reads a column that is half-written (one byte of a
\* 16-bit store in, the word read being neither the old nor the new one).
C1_ScannerNeverReadsHalfWritten == ~scan.torn

\* C1 amended: every byte that random_field and life() store goes to a column
\* outside the visible range [fb_base, fb_base + 7] mod 16, and the scanner
\* reads a column in the middle of a store only during clear_screen(0, 16),
\* which stores to all 16 columns, the visible ones included.
C1_OnlyClearScreenStoresToVisible ==
    /\ store.by \in {"random_field", "life"} => ~store.vis
    /\ scan.mid => scan.during = "clear_screen"
    /\ store.by = "clear_screen" => pc \in {"clear_start", "set_base", "random_field",
                                            "clear_end", "done"}

\* C1 witness: in the second or a later generation, the scanner has run
\* between the two bytes of a store of life() and read a visible column that
\* is not blank.
C1_Witness ==
    /\ pc = "life" /\ st # NoStore /\ st.old # st.new
    /\ scan.during = "life" /\ ~scan.mid
    /\ fb_base = 0
    /\ framebuf[(fb_base + ((col + 7) % 8)) % 16] # 0

----------------------------------------------------------------------------
(* Properties of hello_world(), checked under SpecHello *)

\* C11: from an empty mask, every call's probing loop ends at an index that
\* no earlier call of the round picked, so the n-th call of a round leaves n
\* distinct indices quoted and the other 64 - n in the mask; the mask is empty
\* exactly after the 64th call, and the call that finds it empty refills it
\* and is the first of a fresh round.
C11_PicksArePermutation ==
    /\ pick.found /\ pick.probes < 64
    /\ pick.fresh
    /\ Cardinality(quoted) = pick.nth
    /\ quoted \subseteq Quotes
    /\ maskus = IF pick.nth = 0 THEN {} ELSE Quotes \ quoted
    /\ (maskus = {}) <=> (pick.nth \in {0, 64})
    /\ pick.refilled <=> (pick.nth = 1)

\* C11 witness: the 64th call of a round had to probe past used indices and
\* took the last one; the mask is exhausted.
C11_Witness ==
    /\ pick.nth = 64 /\ quoted = Quotes /\ maskus = {}
    /\ pick.probes > 1 /\ pick.r # pick.start

----------------------------------------------------------------------------
(* Properties of the do_life loop, checked under SpecDoLife and FairDoLife *)

Started == pc # "do_life"
InLoop == pc \in {"loop", "update", "life", "life_end", "flip", "fade"}
Left == pc \in {"clear_end", "done"}

\* the steps of a fade-in from FADE_DARK, and of a fade-out from FADE_BRIGHT
FadeInSteps == (FADE_BRIGHT - FADE_DARK + 2) \div 2
FadeOutSteps == (FADE_BRIGHT - 2) \div 2

\* C12 as claimed: once the session has begun, fade and the level written to
\* OCR0B stay within [FADE_DARK, FADE_BRIGHT].
C12_FadeWithinBounds ==
    Started => /\ fade \in FADE_DARK..FADE_BRIGHT
               /\ OCR0B \in FADE_DARK..FADE_BRIGHT

C14_FadeBeginsAtBoundary ==
    Started => fadeh.from \in {FADE_DARK, FADE_BRIGHT}

\* C14 amended: a fade that is initiated while no fade is in progress
\* (df = 0, or the start of the session) begins at a boundary value; a
\* fade-out that is requested while a fade-in is in progress begins at the
\* level the fade-in had reached, which is left as it is.
C14_FadeResetOnlyWhenIdle ==
    Started =>
        /\ fadeh.was = 0 => fadeh.from \in {FADE_DARK, FADE_BRIGHT}
        /\ fadeh.was # 0 => (fadeh.was = 2 /\ fadeh.from = fadeh.level)
        /\ df < 0 => fade = fadeh.from - 2 * fadeh.steps

\* C14 witness: a fade-out has just been initiated with no fade in progress
\* and the level well below the bright bound, and has been reset to
\* FADE_BRIGHT.
C14_Witness ==
    /\ pc = "flip" /\ df = -2
    /\ fadeh.was = 0 /\ fadeh.level = FADE_BRIGHT + 1
    /\ fadeh.from = FADE_BRIGHT /\ fadeh.steps = 0 /\ fade = FADE_BRIGHT

\* C15: right after a generation that is STEADY or DEAD, and from the 36th
\* generation of the session on, the direction is fade-out; and a fade-out,
\* once requested, stays requested.
C15_FadeOutRequestedAndKept ==
    /\ [](/\ (pc = "flip" /\ life_state \in {STEADY, DEAD}) => df < 0
          /\ gens > 35 => df < 0)
    /\ [][df < 0 => df' < 0]_vars

\* C15 witness: the 36th generation, ACTIVE like the 35 before it, has just
\* requested the fade-out.
C15_Witness ==
    /\ pc = "flip" /\ gens = 36 /\ iterations = 36 /\ life_state = ACTIVE
    /\ df = -2 /\ fadeh.steps = 0

\* C16 as claimed: every session returns.
C16_SessionReturns == <>(pc = "done")

\* C16 amended: the loop is left only when a fade-out has completed, and
\* every session returns unless it stays paused (speed = 0) for ever.
C16_ReturnsUnlessPaused ==
    /\ [](Left => (df < 0 /\ fade <= -df))
    /\ (<>(pc = "done") \/ <>[](speed = 0 /\ InLoop))

\* C16 witness: a session that ran into the iteration cap has returned.
C16_Witness ==
    /\ pc = "done" /\ gens > 36 /\ df < 0 /\ ~fade_irq

----------------------------------------------------------------------------
(* Properties of the page flipping, checked under SpecDoLife *)

\* the board random_field makes of the noise
SeedBoard == [c \in Cols |-> RandomColumn(noise[c])]

\* the columns of the half at base
HalfCols(base) == {(base + i) % 16 : i \in Cols}

\* the life() call under way or just over has stored a byte
LifeStored ==
    /\ pc \in {"life", "life_end", "flip"}
    /\ pc = "life" => ~(loop_i = 0 /\ loop_j = 0 /\ step = "and_lo")

\* C19: in the loop fb_base is 0 or 8; the stores of a life() call go to the
\* half that is not visible, never to the visible one; the flip comes once
\* per generation, after the last column is stored, so the base alternates
\* with the count of generations; and the visible half always holds a whole
\* generation: the seed board, or the successor of the board that the other
\* half still holds.
C19_FlipOncePerCompleteGeneration ==
    InLoop =>
        /\ fb_base \in {0, 8}
        /\ fb_base = IF (gens % 2 = 0) = (pc # "flip") THEN 8 ELSE 0
        /\ pc \in {"life", "life_end", "flip"} =>
              /\ LifeStored =>
                    /\ store.by = "life" /\ ~store.vis
                    /\ store.col \in HalfCols(Flip(fb_base))
                    /\ store.col \notin HalfCols(fb_base)
              /\ pc # "life" => (st = NoStore /\ Dst = life(Src, dst_before).dst)
        /\ pc \in {"loop", "update", "fade"} =>
              Src = IF gens = 0 THEN SeedBoard ELSE life(Dst, Dst).dst

\* C19 witness: the second generation is complete in the back half and is
\* about to be flipped in; it differs from the one on display.
C19_Witness ==
    /\ pc = "flip" /\ gens = 2 /\ fb_base = 0
    /\ Dst = life(Src, dst_before).dst /\ Dst # Src /\ ~AllDead(Dst)

----------------------------------------------------------------------------
(* Properties of random_field(), checked under SpecSeed *)

\* C17: after random_field every cell of each of the 8 target columns is
\* dead (0) or red (2), whatever the column held before, and the cell at
\* row r of column i is red exactly when sample 7 - r of that column was 1.
C17_SeedCellsDeadOrRed ==
    pc = "seeded" =>
        \A i \in Cols, r \in 0..7 :
            /\ CellAt(Half(framebuf, 8), i, r) \in {0, 2}
            /\ (CellAt(Half(framebuf, 8), i, r) = 2) <=> (noise[i][7 - r] = 1)

\* C17 witness: a target half that was all ones has been seeded with a
\* board that has both live and dead cells in its first column.
C17_Witness ==
    /\ pc = "seeded" /\ framebuf[0] = 65535
    /\ \E r1, r2 \in 0..7 : /\ CellAt(Half(framebuf, 8), 0, r1) = 2
                            /\ CellAt(Half(framebuf, 8), 0, r2) = 0
    /\ noise[0][0] = 1 /\ noise[0][7] = 1

----------------------------------------------------------------------------
(* Properties of the column scanner, checked under SpecScan *)

Bit(w, b) == (w \div (2^b)) % 2

\* the outputs carry the word of read r: output 15 - b is low (on) exactly
\* when bit b of the word is 1
Carries(out, r) == \A b \in 0..15 : Bit(out, 15 - b) = 1 - Bit(r.word, b)

OneLine == {ColumnLine(c) : c \in Cols}

\* C18: tick n works on column n mod 8 and reads framebuf[(fb_base + col)
\* mod 16]; the driver lines are all off when the registers are latched;
\* the tick ends with exactly the line 0x80 >> col on; at every instant at
\* most one line is on, and when one is on it is the line of the column
\* whose word is on the outputs of the row registers.
C18_ScannerInvariant ==
    /\ col = (IF isr_pc = "idle" THEN tick ELSE tick + 7) % 8
    /\ isr_pc # "idle" =>
          /\ rd.col = col /\ rd.base = fb_base
          /\ rd.off = (fb_base + col) % 16
          /\ rd.word = framebuf[rd.off]
    /\ isr_pc = "drive" => (PORTD = 0 /\ latch = sr /\ Carries(latch, rd))
    /\ isr_pc = "next" => (PORTD = 128 \div (2^col) /\ PORTD \in OneLine)
    /\ PORTD \in OneLine \cup {0}
    /\ PORTD # 0 =>
          /\ PORTD = 128 \div (2^shown.col)
          /\ Carries(latch, shown)
          /\ shown.word = framebuf[(shown.base + shown.col) % 16]

\* C18 witness: in the second pass over the columns, after a flip of
\* fb_base, the previous column is still lit with its own word on the
\* outputs while the next word is half shifted in.
C18_Witness ==
    /\ tick = 10 /\ isr_pc = "shift" /\ isr_i = 8
    /\ PORTD = ColumnLine(0) /\ shown.col = 0 /\ rd.col = 1
    /\ rd.base # shown.base /\ rd.off = 6
    /\ latch # sr

----------------------------------------------------------------------------
(* Properties of Sleep(), checked under SpecSleep *)

\* C20 as claimed: Sleep never clears a wakeup flag that the interrupt has
\* set for the current call, and it returns after the first compare match.
C20_NoWakeupLost ==
    /\ ~slp.lost
    /\ pc = "sleep_done" => slp.matches = 1

====
